---- MODULE Spec2Model ----
(***************************************************************************)
(* Model of mmdeploy/core/rewriters/symbolic_register.py: the registry of  *)
(* custom ONNX symbolics (SYMBOLIC_REGISTER), the decorator                *)
(* register_symbolic that fills it, and its build function set_symbolic,   *)
(* reached through register_extra_symbolics.                               *)
(*                                                                         *)
(* Strings.  A Python str is modelled as the sequence of its pieces: the   *)
(* separator character "@" and the maximal '@'-free chunks between         *)
(* separators.  'default' is <<"default">>, 'a@b' is <<"a", "@", "b">>.    *)
(* '@'.join and str.split('@') are computed on that representation.        *)
(*                                                                         *)
(* Values of a symbolic attribute are records: None, the symbolic an       *)
(* object had before any build, or an instance of a registered wrapper     *)
(* class created by one build.                                             *)
(***************************************************************************)
EXTENDS Integers, Sequences, FiniteSets, TLC

(* Bounds of the model. *)
MaxRegs == 3
MaxBuilds == 2

(***************************************************************************)
(* Strings                                                                 *)
(***************************************************************************)
AT == "@"

DEFAULT == <<"default">>

TRT == <<"tensorrt">>

\* str(is_pytorch), line 119
Str(b) == IF b THEN <<"True">> ELSE <<"False">>

\* '@'.join(parts), line 119
RECURSIVE Join(_)
Join(parts) ==
    IF parts = <<>> THEN <<>>
    ELSE IF Len(parts) = 1 THEN parts[1]
    ELSE parts[1] \o <<AT>> \o Join(Tail(parts))

\* module_name.split('@'), line 29: the list of the pieces between separators
RECURSIVE Split(_)
Split(s) ==
    IF \A i \in 1..Len(s) : s[i] # AT THEN <<s>>
    ELSE LET i == CHOOSE k \in 1..Len(s) :
                      s[k] = AT /\ \A j \in 1..(k - 1) : s[j] # AT
         IN  <<SubSeq(s, 1, i - 1)>> \o Split(SubSeq(s, i + 1, Len(s)))

(***************************************************************************)
(* The host environment                                                    *)
(***************************************************************************)
NameF == <<"mod.RoIAlign">>

NameG == <<"mod.helper">>

NameOp == <<"squeeze">>

NameAt == <<"a", "@", "b">>

BackendAt == <<"x", "@", "y">>

DefaultOpset == 11

Opsets == {9, DefaultOpset}

None == [none |-> TRUE]

Orig(obj) == [orig |-> obj]

\* eval_with_import(func_name): the object the name evaluates to, or an
\* exception.  "ClsF" is a torch.autograd.Function subclass, "ObjG" is an
\* importable object that is not one, every other name fails to evaluate.
EvalWithImport(func_name) ==
    CASE func_name = NameF -> [raised |-> FALSE, obj |-> "ClsF"]
      [] func_name = NameG -> [raised |-> FALSE, obj |-> "ObjG"]
      [] OTHER -> [raised |-> TRUE, obj |-> "none"]

Objects == {"ClsF", "ObjG"}

\* issubclass(func, Function), line 48
IsFunctionSubclass(obj) == obj = "ClsF"

\* the symbolic attribute of each object before any build
InitialSymbolic == [o \in Objects |-> IF o = "ClsF" THEN Orig(o) ELSE None]

(***************************************************************************)
(* Inputs                                                                  *)
(***************************************************************************)
Backends == {DEFAULT, TRT}

\* the arguments register_symbolic is called with: a Function path under
\* both backends and both flags, a pytorch builtin name with and without the
\* is_pytorch flag, a path to an object that is no Function, and one name
\* and one backend that hold the separator
RegInputs ==
    [func_name : {NameF}, backend : Backends, is_pytorch : BOOLEAN]
    \cup [func_name : {NameOp}, backend : {DEFAULT}, is_pytorch : BOOLEAN]
    \cup {[func_name |-> NameG, backend |-> DEFAULT, is_pytorch |-> FALSE],
          [func_name |-> NameAt, backend |-> DEFAULT, is_pytorch |-> FALSE],
          [func_name |-> NameF, backend |-> BackendAt, is_pytorch |-> TRUE]}

VARIABLES
    module_dict,    \* SYMBOLIC_REGISTER.module_dict, in insertion order
    symbolic,       \* object -> its symbolic attribute
    origin_func,    \* wrapper instance -> its origin_func attribute
    op_registry,    \* torch.onnx.symbolic_registry: <<name, domain, opset>> -> op
    nbuilds,        \* number of builds started
    last            \* the last build: its arguments (the registry as it was,
                    \* backend, opset), its outcome, the valid_symbolic_dict
                    \* it computed and the calls it made, in order

vars == <<module_dict, symbolic, origin_func, op_registry, nbuilds, last>>

(***************************************************************************)
(* register_symbolic                                                       *)
(***************************************************************************)
\* wrapper_name, line 119
WrapperName(func_name, backend, is_pytorch) ==
    Join(<<func_name, backend, Str(is_pytorch)>>)

\* the names registered so far
Names == {module_dict[i].name : i \in 1..Len(module_dict)}

\* register_symbolic(func_name, backend, is_pytorch)(symbolic_impl), lines
\* 112-122.  The wrapper class carries func_name and backend as attributes;
\* is_pytorch identifies the decorated function and survives only in the
\* class name.  Registry.register_module raises KeyError for a name that is
\* already registered and leaves module_dict as it was.
RegisterSymbolic(func_name, backend, is_pytorch) ==
    LET wrapper_name == WrapperName(func_name, backend, is_pytorch)
        wrapper == [func_name |-> func_name, backend |-> backend,
                    is_pytorch |-> is_pytorch]
    IN  /\ Len(module_dict) < MaxRegs
        /\ wrapper_name \notin Names
        /\ module_dict' = Append(module_dict,
                                 [name |-> wrapper_name, impl |-> wrapper])
        /\ UNCHANGED <<symbolic, origin_func, op_registry, nbuilds, last>>

(***************************************************************************)
(* set_symbolic                                                            *)
(***************************************************************************)
\* func_name in valid_symbolic_dict
HasKey(valid, func_name) ==
    \E i \in 1..Len(valid) : valid[i].func_name = func_name

\* valid_symbolic_dict[func_name] = (symbolic_impl, is_pytorch), lines 33-34:
\* a dict keeps the position of a key it already holds and replaces its value
Put(valid, func_name, symbolic_impl, is_pytorch) ==
    LET e == [func_name |-> func_name, impl |-> symbolic_impl,
              is_pytorch |-> is_pytorch]
    IN  IF HasKey(valid, func_name)
        THEN [i \in 1..Len(valid) |->
                 IF valid[i].func_name = func_name THEN e ELSE valid[i]]
        ELSE Append(valid, e)

\* Selects with the "not in valid_symbolic_dict" test dropped: a later
\* 'default' registration replaces whatever was chosen
SelectsLaterDefault(symbolic_backend, backend, func_name, valid) ==
    \/ symbolic_backend = backend
    \/ symbolic_backend = DEFAULT

\* Selects with the 'default' test dropped: the first registration of a
\* function name is taken whatever its backend
SelectsAnyBackend(symbolic_backend, backend, func_name, valid) ==
    \/ symbolic_backend = backend
    \/ ~HasKey(valid, func_name)

\* the condition of lines 30-32
Selects(symbolic_backend, backend, func_name, valid) ==
    \/ symbolic_backend = backend
    \/ (symbolic_backend = DEFAULT /\ ~HasKey(valid, func_name))

\* the loop of lines 27-34 over the items of module_dict that are left.
\* Unpacking a split of other than three pieces raises ValueError.
RECURSIVE FindValid(_, _, _)
FindValid(items, backend, valid) ==
    IF items = <<>> THEN [raised |-> FALSE, dict |-> valid]
    ELSE LET parts == Split(Head(items).name)
         IN  IF Len(parts) # 3 THEN [raised |-> TRUE, dict |-> valid]
             ELSE LET func_name == parts[1]
                      symbolic_backend == parts[2]
                      is_pytorch == parts[3]
                  IN  IF Selects(symbolic_backend, backend, func_name, valid)
                      THEN FindValid(Tail(items), backend,
                                     Put(valid, func_name, Head(items).impl,
                                         is_pytorch = <<"True">>))
                      ELSE FindValid(Tail(items), backend, valid)

\* register_op(func_name, symbolic_impl, '', opset), line 44
RegisterOp(registry, func_name, symbolic_impl, domain, opset) ==
    (<<func_name, domain, opset>> :> symbolic_impl) @@ registry

\* PatchFunction with the assignment of func.symbolic moved before the
\* issubclass assertion
PatchFunctionSetFirst(st, func_name, inst) ==
    LET r == EvalWithImport(func_name)
        warning == [op |-> "warning", func_name |-> func_name]
    IN  IF r.raised THEN [st EXCEPT !.log = Append(@, warning)]
        ELSE IF ~IsFunctionSubclass(r.obj)
        THEN [st EXCEPT !.symbolic = [@ EXCEPT ![r.obj] = inst],
                        !.log = Append(@, warning)]
        ELSE [st EXCEPT
                 !.origin_func = (inst :> st.symbolic[r.obj]) @@ @,
                 !.symbolic = [@ EXCEPT ![r.obj] = inst],
                 !.log = Append(@, [op |-> "setattr", func_name |-> func_name,
                                    obj |-> r.obj, impl |-> inst])]

\* PatchFunction with origin_func read after func.symbolic was replaced
PatchFunctionOriginAfter(st, func_name, inst) ==
    LET r == EvalWithImport(func_name)
    IN  IF r.raised \/ ~IsFunctionSubclass(r.obj)
        THEN [st EXCEPT !.log = Append(@, [op |-> "warning",
                                           func_name |-> func_name])]
        ELSE [st EXCEPT
                 !.origin_func = (inst :> inst) @@ @,
                 !.symbolic = [@ EXCEPT ![r.obj] = inst],
                 !.log = Append(@, [op |-> "setattr", func_name |-> func_name,
                                    obj |-> r.obj, impl |-> inst])]

\* lines 46-54: the patch of a torch.autograd.Function, or a logged warning
PatchFunction(st, func_name, inst) ==
    LET r == EvalWithImport(func_name)
    IN  IF r.raised \/ ~IsFunctionSubclass(r.obj)
        THEN [st EXCEPT !.log = Append(@, [op |-> "warning",
                                           func_name |-> func_name])]
        ELSE [st EXCEPT
                 !.origin_func = (inst :> st.symbolic[r.obj]) @@ @,
                 !.symbolic = [@ EXCEPT ![r.obj] = inst],
                 !.log = Append(@, [op |-> "setattr", func_name |-> func_name,
                                    obj |-> r.obj, impl |-> inst])]

\* InstallOne with register_op given the default opset instead of the
\* opset of the build
InstallOneDefaultOpset(st, e, opset, n) ==
    LET inst == [impl |-> e.impl, build |-> n]
    IN  IF e.is_pytorch
        THEN [st EXCEPT
                 !.op_registry = RegisterOp(@, e.func_name, inst, <<>>,
                                            DefaultOpset),
                 !.log = Append(@, [op |-> "register_op",
                                    func_name |-> e.func_name, impl |-> inst,
                                    domain |-> <<>>,
                                    opset |-> DefaultOpset])]
        ELSE PatchFunction(st, e.func_name, inst)

\* one iteration of the loop of lines 37-54; n numbers the build, so that
\* symbolic_impl(cfg=cfg, **kwargs) is a new instance in every build
InstallOne(st, e, opset, n) ==
    LET inst == [impl |-> e.impl, build |-> n]
    IN  IF e.is_pytorch
        THEN [st EXCEPT
                 !.op_registry = RegisterOp(@, e.func_name, inst, <<>>, opset),
                 !.log = Append(@, [op |-> "register_op",
                                    func_name |-> e.func_name, impl |-> inst,
                                    domain |-> <<>>, opset |-> opset])]
        ELSE PatchFunction(st, e.func_name, inst)

\* Install without the try/except of lines 46-53: the first failure ends
\* the loop
RECURSIVE InstallAbort(_, _, _, _)
InstallAbort(valid, st, opset, n) ==
    IF valid = <<>> THEN st
    ELSE LET st1 == InstallOne(st, Head(valid), opset, n)
         IN  IF st1.log[Len(st1.log)].op = "warning" THEN st1
             ELSE InstallAbort(Tail(valid), st1, opset, n)

\* the loop of lines 37-54
RECURSIVE Install(_, _, _, _)
Install(valid, st, opset, n) ==
    IF valid = <<>> THEN st
    ELSE Install(Tail(valid), InstallOne(st, Head(valid), opset, n), opset, n)

\* set_symbolic(cfg, registry, backend, opset), lines 12-54
SetSymbolic(backend, opset) ==
    LET n == nbuilds + 1
        found == FindValid(module_dict, backend, <<>>)
        st0 == [symbolic |-> symbolic, origin_func |-> origin_func,
                op_registry |-> op_registry, log |-> <<>>]
        st == IF found.raised THEN st0 ELSE Install(found.dict, st0, opset, n)
    IN  /\ symbolic' = st.symbolic
        /\ origin_func' = st.origin_func
        /\ op_registry' = st.op_registry
        /\ nbuilds' = n
        /\ last' = [registry |-> module_dict,
                    backend |-> backend, opset |-> opset,
                    outcome |-> IF found.raised THEN "raised" ELSE "returned",
                    valid |-> IF found.raised THEN <<>> ELSE found.dict,
                    log |-> st.log]
        /\ UNCHANGED module_dict

\* register_extra_symbolics(cfg, backend, opset), lines 130-140
RegisterExtraSymbolics(backend, opset) ==
    /\ nbuilds < MaxBuilds
    /\ SetSymbolic(backend, opset)

(***************************************************************************)
(* Specification                                                           *)
(***************************************************************************)
Init ==
    /\ module_dict = <<>>
    /\ symbolic = InitialSymbolic
    /\ origin_func = <<>>
    /\ op_registry = <<>>
    /\ nbuilds = 0
    /\ last = [registry |-> <<>>, backend |-> DEFAULT, opset |-> DefaultOpset,
               outcome |-> "none", valid |-> <<>>, log |-> <<>>]

Register == \E r \in RegInputs :
                RegisterSymbolic(r.func_name, r.backend, r.is_pytorch)

Build == \E backend \in Backends, opset \in Opsets :
             RegisterExtraSymbolics(backend, opset)

Next == Register \/ Build

Spec == Init /\ [][Next]_vars

(***************************************************************************)
(* Properties.  They are stated over the last build: last.registry is the  *)
(* registry it was given, last.valid the registrations it selected and     *)
(* last.log the register_op calls, attribute replacements and warnings it  *)
(* made, in order.                                                         *)
(***************************************************************************)
Reg == last.registry

LogIdx == 1..Len(last.log)

\* the positions of the log at which a symbolic was installed
Installs == {k \in LogIdx : last.log[k].op \in {"register_op", "setattr"}}

\* the positions of the registrations of function name f
RegsOf(f) == {i \in 1..Len(Reg) : Reg[i].impl.func_name = f}

RegisteredNames == {Reg[i].impl.func_name : i \in 1..Len(Reg)}

Min(S) == CHOOSE x \in S : \A y \in S : x <= y

\* the installation of function name f fails: it is not a builtin, and it
\* does not evaluate to a torch.autograd.Function subclass
FailsToPatch(f) ==
    LET r == EvalWithImport(f) IN r.raised \/ ~IsFunctionSubclass(r.obj)

IsInstance(v) == "impl" \in DOMAIN v

\* C1: backend-specific beats default.  When the registry holds, for a
\* function name f, a registration whose backend is the requested backend and
\* a 'default' registration, whatever their order, the symbolic the build
\* installs for f is a registration of f made for the requested backend.
C1_BackendBeatsDefault ==
    \A k \in Installs :
        LET f == last.log[k].func_name
            w == last.log[k].impl.impl
        IN  /\ \E i \in RegsOf(f) : Reg[i].impl = w
            /\ ( /\ \E i \in RegsOf(f) : Reg[i].impl.backend = last.backend
                 /\ \E i \in RegsOf(f) : Reg[i].impl.backend = DEFAULT )
               => w.backend = last.backend

\* a build for tensorrt installed the tensorrt registration of a function
\* name that has 'default' registrations before and after it
C1_Witness ==
    /\ last.backend = TRT
    /\ \E k \in Installs :
          LET f == last.log[k].func_name
          IN  /\ last.log[k].impl.impl.backend = TRT
              /\ \E i, j, m \in RegsOf(f) :
                    /\ i < j /\ j < m
                    /\ Reg[i].impl.backend = DEFAULT
                    /\ Reg[j].impl.backend = TRT
                    /\ Reg[m].impl.backend = DEFAULT

\* C2: first default wins.  For every requested backend and every function
\* name f whose registrations for the requested backend, if any, are
\* 'default' ones, the build installs the 'default' registration of f that
\* was registered first.
C2_FirstDefaultWins ==
    \A k \in Installs :
        LET f == last.log[k].func_name
            w == last.log[k].impl.impl
            defaults == {i \in RegsOf(f) : Reg[i].impl.backend = DEFAULT}
        IN  ( /\ \A i \in RegsOf(f) : Reg[i].impl.backend = last.backend
                                        => Reg[i].impl.backend = DEFAULT
              /\ defaults # {} )
            => w = Reg[Min(defaults)].impl

\* C3: log-and-skip.  A failure to install one selected function name does
\* not end the build: the build returns, and every selected name after the
\* failing one has been processed, in order, and installed unless it fails
\* itself.
C3_LogAndSkip ==
    \A k \in LogIdx :
        last.log[k].op = "warning" =>
            /\ last.outcome = "returned"
            /\ Len(last.log) = Len(last.valid)
            /\ \A j \in (k + 1)..Len(last.valid) :
                  /\ last.log[j].func_name = last.valid[j].func_name
                  /\ last.log[j].op = "warning"
                       <=> ( /\ ~last.valid[j].is_pytorch
                             /\ FailsToPatch(last.valid[j].func_name) )

\* a build logged a warning for one name and installed a later one
C3_Witness ==
    \E k \in LogIdx, j \in Installs :
        k < j /\ last.log[k].op = "warning"

\* C4: a build for backend B installs only registrations whose backend is B
\* or 'default': every register_op call and every attribute replacement of
\* the build, and every entry the build left in the op registry or in a
\* symbolic attribute.
C4_OnlyEligibleBackends ==
    /\ \A k \in Installs :
          last.log[k].impl.impl.backend \in {last.backend, DEFAULT}
    /\ \A key \in DOMAIN op_registry :
          op_registry[key].build = nbuilds
              => op_registry[key].impl.backend \in {last.backend, DEFAULT}
    /\ \A o \in Objects :
          (IsInstance(symbolic[o]) /\ symbolic[o].build = nbuilds)
              => symbolic[o].impl.backend \in {last.backend, DEFAULT}

\* a build installed a symbolic for a function name whose first registration
\* is for another backend
C4_Witness ==
    \E k \in Installs :
        LET first == Min(RegsOf(last.log[k].func_name))
        IN  Reg[first].impl.backend \notin {last.backend, DEFAULT}

\* C5: the is_pytorch flag the winning registration was registered with
\* fixes the route.  True: one register_op call under the function name, with
\* the empty domain and the opset of the build, and no patch attempt.  False:
\* no register_op call for the name, and the Function the name evaluates to,
\* if it is one, has the winner as its symbolic.
C5_RouteByFlag ==
    last.outcome = "returned" =>
        \A e \in {last.valid[k] : k \in 1..Len(last.valid)} :
            LET f == e.func_name
                inst == [impl |-> e.impl, build |-> nbuilds]
                of_f == {k \in LogIdx : last.log[k].func_name = f}
            IN  IF e.impl.is_pytorch
                THEN /\ \A k \in of_f :
                           /\ last.log[k].op = "register_op"
                           /\ last.log[k].impl = inst
                           /\ last.log[k].domain = <<>>
                           /\ last.log[k].opset = last.opset
                     /\ of_f # {}
                     /\ <<f, <<>>, last.opset>> \in DOMAIN op_registry
                     /\ op_registry[<<f, <<>>, last.opset>>] = inst
                ELSE /\ \A k \in of_f : last.log[k].op # "register_op"
                     /\ \A key \in DOMAIN op_registry :
                           key[1] = f => op_registry[key].build # nbuilds
                     /\ ~FailsToPatch(f) =>
                           /\ \E k \in of_f :
                                 /\ last.log[k].op = "setattr"
                                 /\ last.log[k].impl = inst
                           /\ symbolic[EvalWithImport(f).obj] = inst

\* a build with an opset other than the default one took both routes
C5_Witness ==
    /\ last.opset # DefaultOpset
    /\ \E k, j \in LogIdx :
          /\ last.log[k].op = "register_op"
          /\ last.log[j].op = "setattr"

\* C6: one winner per function name.  In a build, every function name with a
\* registration for the requested backend or for 'default' has exactly one
\* selected registration and exactly one installation attempt; every other
\* function name has none.
C6_OneWinnerPerName ==
    last.outcome # "none" =>
        \A f \in RegisteredNames :
            LET eligible == {i \in RegsOf(f) :
                                Reg[i].impl.backend \in {last.backend, DEFAULT}}
                selected == {k \in 1..Len(last.valid) :
                                last.valid[k].func_name = f}
                attempts == {k \in LogIdx : last.log[k].func_name = f}
                n == IF eligible = {} THEN 0 ELSE 1
            IN  Cardinality(selected) = n /\ Cardinality(attempts) = n

\* C7: a skipped install changes nothing.  When a build logs a warning for a
\* function name, the object the name evaluates to (if any) has the symbolic
\* attribute it had before the build, and the build makes no register_op
\* call for that name.
C7_SkipLeavesState ==
    [][ nbuilds' = nbuilds + 1 =>
          \A k \in 1..Len(last'.log) :
              last'.log[k].op = "warning" =>
                  LET f == last'.log[k].func_name
                      r == EvalWithImport(f)
                  IN  /\ ~r.raised => symbolic'[r.obj] = symbolic[r.obj]
                      /\ \A j \in 1..Len(last'.log) :
                            last'.log[j].op = "register_op"
                                => last'.log[j].func_name # f
                      /\ \A key \in DOMAIN op_registry' :
                            key[1] = f => /\ key \in DOMAIN op_registry
                                          /\ op_registry'[key] = op_registry[key]
      ]_vars

\* a build skipped a name that evaluates to an object that is no Function,
\* and replaced the symbolic of a Function
C7_Witness ==
    /\ \E k \in LogIdx :
          /\ last.log[k].op = "warning"
          /\ ~EvalWithImport(last.log[k].func_name).raised
    /\ \E k \in LogIdx : last.log[k].op = "setattr"

\* C8: registration key round-trip.  Every key of the registry splits back
\* into the func_name, backend and str(is_pytorch) it was built from, and no
\* build fails while decoding a key.
C8_KeyRoundTrip ==
    /\ \A i \in 1..Len(module_dict) :
          Split(module_dict[i].name)
              = <<module_dict[i].impl.func_name, module_dict[i].impl.backend,
                  Str(module_dict[i].impl.is_pytorch)>>
    /\ last.outcome # "raised"

\* C9: no stale overrides across builds.  After a build, every object whose
\* symbolic attribute is an installed override carries a registration made
\* for the backend of that build or for 'default'.
C9_NoStaleOverrides ==
    last.outcome = "returned" =>
        \A o \in Objects :
            IsInstance(symbolic[o])
                => symbolic[o].impl.backend \in {last.backend, DEFAULT}

\* the values reached from v by following origin_func, v first
RECURSIVE Chain(_, _)
Chain(v, fuel) ==
    IF fuel = 0 \/ v \notin DOMAIN origin_func THEN <<v>>
    ELSE <<v>> \o Chain(origin_func[v], fuel - 1)

\* C10: the original symbolic is preserved.  Each installed symbolic's
\* origin_func is the value the attribute had just before the replacement:
\* following origin_func from the current symbolic of an object passes
\* through every symbolic ever installed on it, newest first, and ends at
\* the symbolic the object had before any build.
C10_OriginPreserved ==
    \A o \in Objects :
        LET c == Chain(symbolic[o], nbuilds + 1)
        IN  /\ c[Len(c)] = InitialSymbolic[o]
            /\ \A i \in 1..(Len(c) - 1) :
                  /\ IsInstance(c[i])
                  /\ IsInstance(c[i + 1]) => c[i].build > c[i + 1].build
            /\ \A inst \in DOMAIN origin_func :
                  EvalWithImport(inst.impl.func_name).obj = o
                      => \E i \in 1..Len(c) : c[i] = inst

\* two builds replaced the symbolic of the same Function
C10_Witness ==
    \E o \in Objects :
        /\ IsInstance(symbolic[o])
        /\ IsInstance(origin_func[symbolic[o]])
        /\ origin_func[origin_func[symbolic[o]]] = InitialSymbolic[o]

====
